---------------------------- MODULE Spec2Model ----------------------------
(***************************************************************************)
(* Model of dump_msg_tables: the resource identifier codec                 *)
(* (ResourceMetadata::parse / pack in src/src/sys.rs), the enumeration     *)
(* callbacks and drivers of src/src/main.rs, the text helpers of           *)
(* src/src/str_util.rs, and the message-table record walk.                 *)
(*                                                                         *)
(* Strings are sequences of character codes.  Memory is a function from    *)
(* byte addresses to 16-bit units; an address outside its domain is not    *)
(* mapped, and a load from it yields Fault.                                *)
(***************************************************************************)
EXTENDS Integers, Sequences, FiniteSets, TLC

\* ------------------------------------------------------------------------
\* Bounds of the model
\* ------------------------------------------------------------------------
MaxStrLen == 3
MaxDigits == 6
MaxBlocks == 2
MaxRecs == 2
MaxItems == 2

\* ------------------------------------------------------------------------
\* Machine constants
\* ------------------------------------------------------------------------
U16 == 65536
ForeignBase == 1048576
HeapBase == 2097152
Fault == -1

ChHash == 35
ChPlus == 43
ChMinus == 45
Ch0 == 48
Ch9 == 57

\* Characters of the generated strings: '#', '+', '-', '0', '4', 'a'.
ShortAlphabet == {35, 43, 45, 48, 52, 97}
\* Digits of the generated ordinal strings: '0', '3', '5', '6'.
DigitChars == {48, 51, 53, 54}

SeqsUpTo(S, n) == UNION {[1..k -> S] : k \in 0..n}

Strings ==
    SeqsUpTo(ShortAlphabet, MaxStrLen)
        \cup {<<ChHash>> \o d : d \in SeqsUpTo(DigitChars, MaxDigits)}

\* ------------------------------------------------------------------------
\* Memory
\* ------------------------------------------------------------------------
\* A buffer of 16-bit units laid out from address base.
Cells(base, units) ==
    [a \in {base + 2 * (i - 1) : i \in 1..Len(units)} |-> units[((a - base) \div 2) + 1]]

Load(m, a) == IF a \in DOMAIN m THEN m[a] ELSE Fault

RECURSIVE ScanFrom(_, _, _, _)
ScanFrom(m, a, text, addrs) ==
    LET u == Load(m, a) IN
    IF u = Fault THEN [text |-> text, addrs |-> addrs \cup {a}, fault |-> TRUE]
    ELSE IF u = 0 THEN [text |-> text, addrs |-> addrs \cup {a}, fault |-> FALSE]
    ELSE ScanFrom(m, a + 2, Append(text, u), addrs \cup {a})

\* while *data != 0 { out.push(char(*data)); data = data.add(1) }
wide_to_utf8(m, data) == ScanFrom(m, data, <<>>, {})

\* Same loop, pushing the units; no terminator is appended.
clone_wide(m, data) == ScanFrom(m, data, <<>>, {}).text

\* ------------------------------------------------------------------------
\* str::parse::<u16>: an optional '+', then decimal digits, value <= 65535
\* ------------------------------------------------------------------------
IsDigit(c) == c >= Ch0 /\ c <= Ch9

RECURSIVE DigitsValue(_, _)
DigitsValue(s, acc) ==
    IF acc = Fault \/ s = <<>> THEN acc
    ELSE IF ~IsDigit(Head(s)) THEN Fault
    ELSE IF acc * 10 + (Head(s) - Ch0) >= U16 THEN Fault
    ELSE DigitsValue(Tail(s), acc * 10 + (Head(s) - Ch0))

ParseU16(s) ==
    IF s = <<>> THEN Fault
    ELSE IF Len(s) = 1 /\ Head(s) \in {ChPlus, ChMinus} THEN Fault
    ELSE IF Head(s) = ChPlus THEN DigitsValue(Tail(s), 0)
    ELSE DigitsValue(s, 0)

\* Mutant: the test looks at the last character instead of the first.
ends_with_hash(s) == Len(s) > 0 /\ s[Len(s)] = ChHash

starts_with_hash(s) == Len(s) > 0 /\ s[1] = ChHash

\* u16::to_string: decimal digits, no sign, no leading zeros.
RECURSIVE ToDecimal(_)
ToDecimal(n) ==
    IF n < 10 THEN <<Ch0 + n>>
    ELSE Append(ToDecimal(n \div 10), Ch0 + (n % 10))

\* ------------------------------------------------------------------------
\* ResourceMetadata
\* ------------------------------------------------------------------------
NoIdent == [kind |-> "None", id |-> 0, utf8 |-> <<>>, wide |-> <<>>]
IdOf(n) == [kind |-> "Id", id |-> n, utf8 |-> <<>>, wide |-> <<>>]
StringOf(s, w) == [kind |-> "String", id |-> 0, utf8 |-> s, wide |-> w]
\* Err(()): the unit error carries nothing.
ErrUnit == [kind |-> "Err", id |-> 0, utf8 |-> <<>>, wide |-> <<>>]
Crashed == [kind |-> "Fault", id |-> 0, utf8 |-> <<>>, wide |-> <<>>]
Panicked == [kind |-> "Panic", id |-> 0, utf8 |-> <<>>, wide |-> <<>>]
PushedText(s) == [kind |-> "PushedText", id |-> 0, utf8 |-> s, wide |-> <<>>]
PushedU16(n) == [kind |-> "PushedU16", id |-> n, utf8 |-> <<>>, wide |-> <<>>]

\* Mutant: the shift is by 8 bits instead of 16.
IsOrdinalWire_Shift8(data_num) == data_num \div 256 = 0

\* data_num >> 16 == 0
IsOrdinalWire(data_num) == data_num \div U16 = 0

\* ResourceMetadata::parse: the value and the addresses it loaded from.
parse(m, data) ==
    IF IsOrdinalWire(data) THEN [val |-> IdOf(data % U16), addrs |-> {}]
    ELSE
        LET sc == wide_to_utf8(m, data) IN
        IF sc.fault THEN [val |-> Crashed, addrs |-> sc.addrs]
        ELSE IF starts_with_hash(sc.text) THEN
            LET id == ParseU16(Tail(sc.text)) IN
            [val |-> IF id = Fault THEN ErrUnit ELSE IdOf(id), addrs |-> sc.addrs]
        ELSE [val |-> StringOf(sc.text, clone_wide(m, data)), addrs |-> sc.addrs]

\* Vec::as_ptr of a vector that never allocated is the dangling, aligned
\* address; otherwise it is the address of the heap buffer.
AsPtr(wide) == IF wide = <<>> THEN 2 ELSE HeapBase

pack(v) == IF v.kind = "Id" THEN v.id ELSE AsPtr(v.wide)

\* enum_res_names: what the callback pushes onto names.
enum_res_names(m, name) ==
    IF IsOrdinalWire(name) THEN [val |-> PushedText(ToDecimal(name % U16)), addrs |-> {}]
    ELSE
        LET sc == wide_to_utf8(m, name) IN
        [val |-> IF sc.fault THEN Crashed ELSE PushedText(sc.text), addrs |-> sc.addrs]

\* enum_res_types: what the callback pushes onto types, or the panic of
\* expect("number should following #").
enum_res_types(m, typ) ==
    IF IsOrdinalWire(typ) THEN [val |-> PushedU16(typ % U16), addrs |-> {}]
    ELSE
        LET sc == wide_to_utf8(m, typ) IN
        IF sc.fault THEN [val |-> Crashed, addrs |-> sc.addrs]
        ELSE IF starts_with_hash(sc.text) THEN
            LET id == ParseU16(Tail(sc.text)) IN
            [val |-> IF id = Fault THEN Panicked ELSE PushedU16(id), addrs |-> sc.addrs]
        ELSE [val |-> PushedU16(0), addrs |-> sc.addrs]

\* ------------------------------------------------------------------------
\* State of the codec
\* ------------------------------------------------------------------------
VARIABLES
    cpc,      \* "start", "parsed", "called", "packed", "reparsed"
    wire,     \* the machine word handed to the decode
    foreign,  \* the null-terminated string the caller keeps at ForeignBase
    via,      \* which function decoded the word
    ident,    \* what it returned (or pushed)
    reads,    \* the addresses it loaded from
    packed,   \* the word returned by pack
    beyond,   \* the cells that happen to follow the identifier's heap buffer
    ident2    \* parse(pack(ident))

codecVars == <<cpc, wire, foreign, via, ident, reads, packed, beyond, ident2>>

\* State of the message-table decoder
VARIABLES
    dpc,      \* "header", "block", "record", "done"
    layout,   \* the blocks and records the blob was built from
    buf,      \* the resource blob, a sequence of bytes
    after,    \* the bytes that happen to follow the blob in memory
    nBlocks,  \* the header's block count
    bi,       \* index of the current block descriptor, from 0
    lowId,    \* current block
    highId,
    cursor,   \* offset of the next record
    k,        \* records of the current block consumed so far
    out,      \* the (id, text) pairs emitted so far
    dstatus,  \* "running", "ok", "Truncated", "UnknownEncodingFlag", "Fault"
    oob,      \* a byte outside the blob has been read
    texts     \* per emitted pair: the record's offset, length and flags

decVars == <<dpc, layout, buf, after, nBlocks, bi, lowId, highId, cursor, k, out,
             dstatus, oob, texts>>

\* State of the enumeration drivers and of main
VARIABLES
    ppc,      \* "load", "enum", "loop", "returned", "print", "exited"
    driver,   \* which get_* function runs
    viaMain,  \* the run is main -> try_main -> get_resource_types
    loadOk,   \* LoadLibraryW succeeds
    enumOk,   \* the EnumResource* call reports success
    items,    \* the words the system hands to the callback, with their strings
    ei,       \* callbacks made so far
    collected,\* the vector the callback pushes onto
    li,       \* identifiers handled by the loop after the enumeration
    result,   \* what the driver returned
    stdout,   \* lines printed so far
    exit      \* how the process ended

drvVars == <<ppc, driver, viaMain, loadOk, enumOk, items, ei, collected, li, result,
             stdout, exit>>

vars == <<codecVars, decVars, drvVars>>

\* The caller's memory: the string, then its terminator.
ForeignMem == Cells(ForeignBase, Append(foreign, 0))

\* The buffer the identifier owns: exactly the vector's elements.
OwnedMem == Cells(HeapBase, ident.wide)

\* The memory pack's word points into: the owned buffer, then whatever
\* follows it on the heap, which is not the identifier's.
HeapMem == Cells(HeapBase, ident.wide \o beyond)

\* What a load past the end of an allocation may find: a zero, an unmapped
\* page, or other units and then one of the two.
BeyondCells == {<<0>>, <<Fault>>, <<97, 0>>, <<52, Fault>>}

\* The parts of the state a run does not use stay as they are here.
CodecIdle ==
    /\ cpc = "idle"
    /\ wire = 0
    /\ foreign = <<>>
    /\ via = "none"
    /\ ident = NoIdent
    /\ reads = {}
    /\ packed = 0
    /\ beyond = <<>>
    /\ ident2 = NoIdent

DecIdle ==
    /\ dpc = "idle"
    /\ layout = [blocks |-> <<>>, trim |-> 0]
    /\ buf = <<>>
    /\ after = <<>>
    /\ nBlocks = 0
    /\ bi = 0
    /\ lowId = 0
    /\ highId = 0
    /\ cursor = 0
    /\ k = 0
    /\ out = <<>>
    /\ dstatus = "running"
    /\ oob = FALSE
    /\ texts = <<>>

NoResult == [kind |-> "None", mod_name |-> "", err_msg |-> "", vals |-> <<>>]

DrvIdle ==
    /\ ppc = "idle"
    /\ driver = "none"
    /\ viaMain = FALSE
    /\ loadOk = TRUE
    /\ enumOk = TRUE
    /\ items = <<>>
    /\ ei = 0
    /\ collected = <<>>
    /\ li = 0
    /\ result = NoResult
    /\ stdout = <<>>
    /\ exit = "none"

InitCodec ==
    /\ cpc = "start"
    /\ \/ wire \in 0..(U16 - 1) /\ foreign = <<>>
       \/ wire = ForeignBase /\ foreign \in Strings
    /\ via = "none"
    /\ ident = NoIdent
    /\ reads = {}
    /\ packed = 0
    /\ beyond = <<>>
    /\ ident2 = NoIdent
    /\ DecIdle
    /\ DrvIdle

Parse ==
    /\ cpc = "start"
    /\ LET r == parse(ForeignMem, wire) IN
        /\ ident' = r.val
        /\ reads' = r.addrs
    /\ via' = "parse"
    /\ cpc' = "parsed"
    /\ UNCHANGED <<wire, foreign, packed, beyond, ident2, decVars, drvVars>>

EnumResNames ==
    /\ cpc = "start"
    /\ LET r == enum_res_names(ForeignMem, wire) IN
        /\ ident' = r.val
        /\ reads' = r.addrs
    /\ via' = "enum_res_names"
    /\ cpc' = "called"
    /\ UNCHANGED <<wire, foreign, packed, beyond, ident2, decVars, drvVars>>

EnumResTypes ==
    /\ cpc = "start"
    /\ LET r == enum_res_types(ForeignMem, wire) IN
        /\ ident' = r.val
        /\ reads' = r.addrs
    /\ via' = "enum_res_types"
    /\ cpc' = "called"
    /\ UNCHANGED <<wire, foreign, packed, beyond, ident2, decVars, drvVars>>

Pack ==
    /\ cpc = "parsed"
    /\ ident.kind \in {"Id", "String"}
    /\ packed' = pack(ident)
    /\ beyond' \in IF ident.kind = "String" THEN BeyondCells ELSE {<<>>}
    /\ cpc' = "packed"
    /\ UNCHANGED <<wire, foreign, via, ident, reads, ident2, decVars, drvVars>>

Reparse ==
    /\ cpc = "packed"
    /\ ident2' = parse(HeapMem, packed).val
    /\ cpc' = "reparsed"
    /\ UNCHANGED <<wire, foreign, via, ident, reads, packed, beyond, decVars, drvVars>>

NextCodec == Parse \/ EnumResNames \/ EnumResTypes \/ Pack \/ Reparse

SpecCodec == InitCodec /\ [][NextCodec]_vars

\* ------------------------------------------------------------------------
\* Properties of the codec
\* ------------------------------------------------------------------------
AllDigits(s) == \A i \in 1..Len(s) : s[i] \in 48..57

RECURSIVE DecimalValue(_)
DecimalValue(s) ==
    IF s = <<>> THEN 0 ELSE 10 * DecimalValue(SubSeq(s, 1, Len(s) - 1)) + (s[Len(s)] - 48)

\* '#' followed by one or more ASCII digits denoting a value in 0..65535
IsOrdinalString(s) ==
    /\ Len(s) >= 2
    /\ s[1] = 35
    /\ AllDigits(Tail(s))
    /\ DecimalValue(Tail(s)) <= 65535

\* '#' followed by one or more ASCII digits
HasOrdinalForm(s) == Len(s) >= 2 /\ s[1] = 35 /\ AllDigits(Tail(s))

Decoded == cpc # "start"

\* C1: a word whose bits above the low 16 are zero decodes to Id(word): parse
\* returns neither an error nor a String, and no decode loads from memory
\* through the word.
C1_OrdinalWire ==
    (Decoded /\ wire < 65536) =>
        /\ reads = {}
        /\ via = "parse" => ident = [kind |-> "Id", id |-> wire, utf8 |-> <<>>, wide |-> <<>>]
        /\ via = "enum_res_types" => (ident.kind = "PushedU16" /\ ident.id = wire)
        /\ via = "enum_res_names" => ident.kind = "PushedText"

C1_Witness ==
    cpc = "parsed" /\ wire = 65535 /\ ident.kind = "Id" /\ ident.id = 65535

\* C2: parse of a pointer to "#<digits>" with a value in 0..65535 returns
\* Id(value), and no successful parse returns a String of the form "#<digits>".
C2_OrdinalString ==
    /\ (via = "parse" /\ wire >= 65536 /\ IsOrdinalString(foreign)) =>
            (ident.kind = "Id" /\ ident.id = DecimalValue(Tail(foreign)))
    /\ ident.kind = "String" => ~HasOrdinalForm(ident.utf8)
    /\ ident2.kind = "String" => ~HasOrdinalForm(ident2.utf8)

C2_Witness ==
    /\ cpc = "parsed"
    /\ foreign = <<35, 54, 53, 53, 51, 53>>
    /\ ident.kind = "Id"
    /\ ident.id = 65535

\* C3: a pointer to a string that starts with '#' and whose remainder is not
\* a non-empty run of ASCII digits with value <= 65535 fails to decode, the
\* error carries the offending text, and the decode does not panic.
C3_InvalidOrdinalString ==
    (Decoded /\ via \in {"parse", "enum_res_types"} /\ wire >= 65536
        /\ Len(foreign) >= 1 /\ foreign[1] = 35 /\ ~IsOrdinalString(foreign)) =>
            (ident.kind = "Err" /\ ident.utf8 = foreign)

\* C3, the sign alone: a sign character after '#' is not an ordinal.
C3_SignRejected ==
    (via = "parse" /\ Len(foreign) >= 2 /\ foreign[1] = 35 /\ foreign[2] = 43) =>
        ident.kind # "Id"

\* C3, the panic alone: no decode of an invalid ordinal string panics.
C3_NoPanic == ident.kind # "Panic"

\* C4: parse(pack(v)) returns an identifier equivalent to v, for every Id
\* and every String whose name is non-empty and does not start with '#'.
C4_RoundTrip ==
    (cpc = "reparsed"
        /\ (ident.kind = "Id" \/ (Len(ident.utf8) >= 1 /\ ident.utf8[1] # 35))) =>
            /\ ident2.kind = ident.kind
            /\ ident2.id = ident.id
            /\ ident2.utf8 = ident.utf8

\* C4, for ordinals only (the part of the round trip that involves no memory).
C4_RoundTripId ==
    (cpc = "reparsed" /\ ident.kind = "Id") => ident2 = ident

\* C5: the word pack returns for a String is the address of a buffer the
\* identifier owns, holding the name's units and then a 0 inside the buffer:
\* a terminator-bounded read from the word stays inside the owned buffer.
C5_NullTerminated ==
    (cpc = "packed" /\ ident.kind = "String" /\ ident.utf8 # <<>>) =>
        /\ packed \in DOMAIN OwnedMem
        /\ ~wide_to_utf8(OwnedMem, packed).fault
        /\ wide_to_utf8(OwnedMem, packed).text = foreign

\* ------------------------------------------------------------------------
\* Message-table blobs
\* ------------------------------------------------------------------------
U16LE(n) == <<n % 256, (n \div 256) % 256>>
U32LE(n) == <<n % 256, (n \div 256) % 256, (n \div 65536) % 256, (n \div 16777216) % 256>>

RECURSIVE Concat(_)
Concat(ss) == IF ss = <<>> THEN <<>> ELSE Head(ss) \o Concat(Tail(ss))

\* The records blobs are built from: flags and the bytes after the header.
\*   ANSI, byte 233, terminator, two bytes of padding
\*   ANSI "ab", no terminator inside the record
\*   UTF-16, unit 353, terminator
\*   UTF-16 "b", no terminator inside the record
\*   flags = 2
RecordKinds ==
    { [flags |-> 0, body |-> <<233, 0, 98, 99>>],
      [flags |-> 0, body |-> <<97, 98>>],
      [flags |-> 1, body |-> <<97, 1, 0, 0>>],
      [flags |-> 1, body |-> <<98, 0>>],
      [flags |-> 2, body |-> <<97, 0, 0, 0>>] }

LowIds == {1, 2, 65535}

\* Bytes removed from (negative) or added to (positive) the end of the blob.
Trims == {-5, -1, 0, 4}

RecordBytes(r) == U16LE(4 + Len(r.body)) \o U16LE(r.flags) \o r.body
RunBytes(recs) == Concat([i \in 1..Len(recs) |-> RecordBytes(recs[i])])

Blocks == [low : LowIds, recs : UNION {[1..n -> RecordKinds] : n \in 1..MaxRecs}]
BlockLists == UNION {[1..n -> Blocks] : n \in 1..MaxBlocks}

RECURSIVE RunsLen(_, _)
RunsLen(bs, n) == IF n = 0 THEN 0 ELSE RunsLen(bs, n - 1) + Len(RunBytes(bs[n].recs))

OffsetOf(bs, i) == 4 + 12 * Len(bs) + RunsLen(bs, i - 1)

Serialize(bs) ==
    U32LE(Len(bs))
        \o Concat([i \in 1..Len(bs) |->
                U32LE(bs[i].low) \o U32LE(bs[i].low + Len(bs[i].recs) - 1)
                    \o U32LE(OffsetOf(bs, i))])
        \o Concat([i \in 1..Len(bs) |-> RunBytes(bs[i].recs)])

Trimmed(bytes, t) ==
    IF t <= 0 THEN SubSeq(bytes, 1, Len(bytes) + t) ELSE bytes \o [i \in 1..t |-> 7]

\* ------------------------------------------------------------------------
\* Text helpers of str_util.rs, over a byte memory M; offsets count from 0
\* ------------------------------------------------------------------------
ByteAt(M, off) == IF off < Len(M) THEN M[off + 1] ELSE Fault

\* while *data != 0 { out.push(char(*data as u32)); data = data.add(1) }
\* last is the offset of the last byte the loop read.
RECURSIVE ScanBytes(_, _, _)
ScanBytes(M, off, text) ==
    LET b == ByteAt(M, off) IN
    IF b = Fault THEN [text |-> text, last |-> off, fault |-> TRUE]
    ELSE IF b = 0 THEN [text |-> text, last |-> off, fault |-> FALSE]
    ELSE ScanBytes(M, off + 1, Append(text, b))

RECURSIVE ScanUnits(_, _, _)
ScanUnits(M, off, text) ==
    LET lo == ByteAt(M, off)
        hi == ByteAt(M, off + 1)
    IN  IF lo = Fault \/ hi = Fault
        THEN [text |-> text, last |-> off + 1, fault |-> TRUE]
        ELSE IF lo + 256 * hi = 0 THEN [text |-> text, last |-> off + 1, fault |-> FALSE]
        ELSE ScanUnits(M, off + 2, Append(text, lo + 256 * hi))

ansi_to_utf8(M, data) == ScanBytes(M, data, <<>>)

utf16_to_utf8(M, data) == ScanUnits(M, data, <<>>)

\* ------------------------------------------------------------------------
\* The record walk
\* ------------------------------------------------------------------------
ReadU16(b, off) == b[off + 1] + 256 * b[off + 2]
ReadU32(b, off) ==
    b[off + 1] + 256 * b[off + 2] + 65536 * b[off + 3] + 16777216 * b[off + 4]

\* The id of a returned pair: the result is a Vec<(u16, String)>.
EntryId(id) == id % U16

\* What the memory after the blob may hold when a scan runs off its end.
AfterBytes == {<<0, 0>>, <<Fault>>, <<120, 0, 0, 0>>}

InitDecoder ==
    /\ dpc = "header"
    /\ \E bs \in BlockLists, t \in Trims :
        /\ layout = [blocks |-> bs, trim |-> t]
        /\ buf = Trimmed(Serialize(bs), t)
    /\ after = <<>>
    /\ nBlocks = 0
    /\ bi = 0
    /\ lowId = 0
    /\ highId = 0
    /\ cursor = 0
    /\ k = 0
    /\ out = <<>>
    /\ dstatus = "running"
    /\ oob = FALSE
    /\ texts = <<>>
    /\ CodecIdle
    /\ DrvIdle

ReadHeader ==
    /\ dpc = "header"
    /\ nBlocks' = ReadU32(buf, 0)
    /\ bi' = 0
    /\ dpc' = "block"
    /\ UNCHANGED <<layout, buf, after, lowId, highId, cursor, k, out, dstatus, oob, texts,
                   codecVars, drvVars>>

BeginBlock ==
    /\ dpc = "block"
    /\ bi < nBlocks
    /\ lowId' = ReadU32(buf, 4 + 12 * bi)
    /\ highId' = ReadU32(buf, 4 + 12 * bi + 4)
    /\ cursor' = ReadU32(buf, 4 + 12 * bi + 8)
    /\ k' = 0
    /\ dpc' = "record"
    /\ UNCHANGED <<layout, buf, after, nBlocks, bi, out, dstatus, oob, texts,
                   codecVars, drvVars>>

Fail(why) ==
    /\ dstatus' = why
    /\ dpc' = "done"
    /\ UNCHANGED <<after, cursor, k, out, oob, texts>>

Decode(flags, M, data) ==
    IF flags = 0 THEN ansi_to_utf8(M, data) ELSE utf16_to_utf8(M, data)

ReadRecord ==
    /\ dpc = "record"
    /\ k < highId - lowId + 1
    /\ IF cursor + 4 > Len(buf) THEN Fail("Truncated")
       ELSE LET length == ReadU16(buf, cursor)
                flags == ReadU16(buf, cursor + 2)
            IN  IF cursor + length > Len(buf) THEN Fail("Truncated")
                ELSE IF flags \notin {0, 1} THEN Fail("UnknownEncodingFlag")
                ELSE \E a \in IF Decode(flags, buf, cursor + 4).fault
                              THEN AfterBytes ELSE {<<>>} :
                        LET sc == Decode(flags, buf \o a, cursor + 4) IN
                        /\ after' = a
                        /\ oob' = (oob \/ sc.last >= Len(buf))
                        /\ IF sc.fault
                           THEN /\ dstatus' = "Fault"
                                /\ dpc' = "done"
                                /\ UNCHANGED <<cursor, k, out, texts>>
                           ELSE /\ out' = Append(out, <<EntryId(lowId + k), sc.text>>)
                                /\ texts' = Append(texts,
                                        [off |-> cursor, len |-> length, flags |-> flags])
                                /\ cursor' = cursor + length
                                /\ k' = k + 1
                                /\ UNCHANGED <<dstatus, dpc>>
    /\ UNCHANGED <<layout, buf, nBlocks, bi, lowId, highId, codecVars, drvVars>>

EndBlock ==
    /\ dpc = "record"
    /\ k = highId - lowId + 1
    /\ bi' = bi + 1
    /\ dpc' = "block"
    /\ UNCHANGED <<layout, buf, after, nBlocks, lowId, highId, cursor, k, out, dstatus,
                   oob, texts, codecVars, drvVars>>

Finish ==
    /\ dpc = "block"
    /\ bi = nBlocks
    /\ dstatus' = "ok"
    /\ dpc' = "done"
    /\ UNCHANGED <<layout, buf, after, nBlocks, bi, lowId, highId, cursor, k, out, oob,
                   texts, codecVars, drvVars>>

NextDecoder == ReadHeader \/ BeginBlock \/ ReadRecord \/ EndBlock \/ Finish

SpecDecoder == InitDecoder /\ [][NextDecoder]_vars

\* ------------------------------------------------------------------------
\* Properties of the decoder
\* ------------------------------------------------------------------------
\* The text of a record taken from its extent alone: the len - 4 bytes after
\* the header, cut at the first zero byte (ANSI) or zero unit (UTF-16).
RECURSIVE ExtentAnsi(_)
ExtentAnsi(bytes) ==
    IF bytes = <<>> \/ Head(bytes) = 0 THEN <<>>
    ELSE <<Head(bytes)>> \o ExtentAnsi(Tail(bytes))

RECURSIVE ExtentUtf16(_)
ExtentUtf16(bytes) ==
    IF Len(bytes) < 2 \/ bytes[1] + 256 * bytes[2] = 0 THEN <<>>
    ELSE <<bytes[1] + 256 * bytes[2]>> \o ExtentUtf16(Tail(Tail(bytes)))

ExtentText(flags, bytes) == IF flags = 0 THEN ExtentAnsi(bytes) ELSE ExtentUtf16(bytes)

HasTerminator(r) == Len(ExtentText(r.flags, r.body)) * (r.flags + 1) < Len(r.body)

WellFormed ==
    /\ layout.trim >= 0
    /\ \A i \in 1..Len(layout.blocks) : \A j \in 1..Len(layout.blocks[i].recs) :
        /\ layout.blocks[i].recs[j].flags \in {0, 1}
        /\ HasTerminator(layout.blocks[i].recs[j])

ExpectedOf(b) ==
    [j \in 1..Len(b.recs) |-> <<b.low + j - 1, ExtentText(b.recs[j].flags, b.recs[j].body)>>]

Expected == Concat([i \in 1..Len(layout.blocks) |-> ExpectedOf(layout.blocks[i])])

RECURSIVE Declared(_)
Declared(bs) == IF bs = <<>> THEN 0 ELSE Len(Head(bs).recs) + Declared(Tail(bs))

\* C6: a well-formed blob decodes to the concatenation, over the blocks in
\* declaration order, of (lowId + k, text_k) for k = 0 .. highId - lowId, the
\* ids being 32-bit values.
C6_DecodeOutput ==
    (dpc = "done" /\ WellFormed) => (dstatus = "ok" /\ out = Expected)

\* C6 without the width of the ids: order, counts and texts.
C6_ModuloIdWidth ==
    (dpc = "done" /\ WellFormed) =>
        /\ dstatus = "ok"
        /\ Len(out) = Len(Expected)
        /\ \A i \in 1..Len(out) :
            out[i][1] = Expected[i][1] % 65536 /\ out[i][2] = Expected[i][2]

\* C7: a record that does not fit the blob fails the decode with Truncated,
\* no byte outside the blob is read, and success never comes with fewer
\* pairs than the declared ranges imply.
C7_BoundsSafety ==
    /\ ~oob
    /\ dstatus # "Fault"
    /\ dstatus = "ok" => Len(out) = Declared(layout.blocks)
    /\ (dpc = "done" /\ layout.trim < 0) => dstatus \in {"Truncated", "UnknownEncodingFlag"}

\* C7, the walk alone: the checks on cursor and cursor + length.
C7_WalkChecks ==
    /\ dstatus = "ok" => Len(out) = Declared(layout.blocks)
    /\ \A i \in 1..Len(texts) : texts[i].off + texts[i].len <= Len(buf)

\* C8: the text of every record is its extent, one character per byte or per
\* little-endian unit, cut at the first terminator inside the extent, and at
\* the extent's end when there is none.
C8_TextExtent ==
    \A i \in 1..Len(out) :
        out[i][2] = ExtentText(texts[i].flags,
                        SubSeq(buf, texts[i].off + 5, texts[i].off + texts[i].len))

\* C8, for records that hold their terminator.
C8_TerminatedText ==
    \A i \in 1..Len(out) :
        LET ext == SubSeq(buf, texts[i].off + 5, texts[i].off + texts[i].len) IN
        Len(ExtentText(texts[i].flags, ext)) * (texts[i].flags + 1) < Len(ext)
            => out[i][2] = ExtentText(texts[i].flags, ext)

\* ------------------------------------------------------------------------
\* The enumeration drivers and main
\* ------------------------------------------------------------------------
ModName == "ping.exe"

\* What the system may hand to a callback: a word and, for a pointer, the
\* string it points to.  Ordinals 1 and 11, "a", "#4", "#4a".
ItemKinds ==
    { [wire |-> 1, str |-> <<>>],
      [wire |-> 11, str |-> <<>>],
      [wire |-> ForeignBase, str |-> <<97>>],
      [wire |-> ForeignBase, str |-> <<35, 52>>],
      [wire |-> ForeignBase, str |-> <<35, 52, 97>>] }

ItemMem(it) == Cells(ForeignBase, Append(it.str, 0))

Drivers == {"get_message_table_entries", "get_resource_types", "get_string_resource_names"}

Line(tag, text) == [tag |-> tag, text |-> text]

Ok(vals) == [kind |-> "Ok", mod_name |-> "", err_msg |-> "", vals |-> vals]
Err(mod, msg) == [kind |-> "Err", mod_name |-> mod, err_msg |-> msg, vals |-> <<>>]

\* map_err(|e| Error::Get...{ mod_name: mod_name.to_string(), err_msg, sys_err: e })
ErrWith(msg) == Err(ModName, msg)

\* What a failed fetch or decode of one identifier reports.
FetchOutcomes == {"ok", "NotFound", "LoadFailed", "LockFailed", "Truncated"}

InitDriver ==
    /\ ppc = "load"
    /\ driver \in Drivers
    /\ viaMain \in (IF driver = "get_resource_types" THEN BOOLEAN ELSE {FALSE})
    /\ loadOk \in BOOLEAN
    /\ enumOk \in BOOLEAN
    /\ items \in UNION {[1..n -> ItemKinds] : n \in 0..MaxItems}
    /\ ei = 0
    /\ collected = <<>>
    /\ li = 0
    /\ result = NoResult
    /\ stdout = <<>>
    /\ exit = "none"
    /\ CodecIdle
    /\ DecIdle

\* sys::load_library(mod_name).map_err(..)?
LoadLibrary ==
    /\ ppc = "load"
    /\ IF loadOk
       THEN ppc' = "enum" /\ UNCHANGED result
       ELSE ppc' = "returned" /\ result' = ErrWith("failed to load the module")
    /\ UNCHANGED <<driver, viaMain, loadOk, enumOk, items, ei, collected, li, stdout, exit,
                   codecVars, decVars>>

\* enum_res_names2: push the parsed name, or print and go on.
CallbackNames2 ==
    /\ ppc = "enum"
    /\ driver = "get_message_table_entries"
    /\ ei < Len(items)
    /\ LET r == parse(ItemMem(items[ei + 1]), items[ei + 1].wire).val IN
        IF r.kind = "Err"
        THEN /\ stdout' = Append(stdout,
                    Line("ERROR", "invalid resource name: expected ID after '#'"))
             /\ UNCHANGED collected
        ELSE /\ collected' = Append(collected, r)
             /\ UNCHANGED stdout
    /\ ei' = ei + 1
    /\ UNCHANGED <<ppc, driver, viaMain, loadOk, enumOk, items, li, result, exit,
                   codecVars, decVars>>

\* enum_res_types: push the type's number, 0 for a string type, or panic.
CallbackTypes ==
    /\ ppc = "enum"
    /\ driver = "get_resource_types"
    /\ ei < Len(items)
    /\ LET it == items[ei + 1]
           r == enum_res_types(ItemMem(it), it.wire).val
       IN  IF r.kind = "Panic"
           THEN /\ exit' = "panic"
                /\ ppc' = "exited"
                /\ UNCHANGED <<collected, stdout>>
           ELSE /\ collected' = Append(collected, r)
                /\ stdout' = IF ~IsOrdinalWire(it.wire) /\ ~starts_with_hash(it.str)
                             THEN Append(stdout,
                                    Line("NOTE", "resource type is a string not starting with #"))
                             ELSE stdout
                /\ UNCHANGED <<exit, ppc>>
    /\ ei' = ei + 1
    /\ UNCHANGED <<driver, viaMain, loadOk, enumOk, items, li, result, codecVars, decVars>>

\* enum_res_names: print, then push the name's text.
CallbackNames ==
    /\ ppc = "enum"
    /\ driver = "get_string_resource_names"
    /\ ei < Len(items)
    /\ stdout' = Append(stdout, Line("OUT", "Callback called"))
    /\ collected' = Append(collected,
            enum_res_names(ItemMem(items[ei + 1]), items[ei + 1].wire).val)
    /\ ei' = ei + 1
    /\ UNCHANGED <<ppc, driver, viaMain, loadOk, enumOk, items, li, result, exit,
                   codecVars, decVars>>

EnumErrMsg ==
    CASE driver = "get_message_table_entries" ->
            "failed to enumerate message table resource names"
      [] driver = "get_resource_types" -> "failed to enumerate resource types"
      [] OTHER -> "failed to enumerate string resource names"

\* The EnumResource* call returns: .map_err(..)?, then Ok(vector) or the loop.
EnumReturn ==
    /\ ppc = "enum"
    /\ ei = Len(items) \/ ~enumOk
    /\ IF ~enumOk
       THEN ppc' = "returned" /\ result' = ErrWith(EnumErrMsg)
       ELSE IF driver = "get_message_table_entries"
       THEN ppc' = "loop" /\ UNCHANGED result
       ELSE ppc' = "returned" /\ result' = Ok(collected)
    /\ UNCHANGED <<driver, viaMain, loadOk, enumOk, items, ei, collected, li, stdout, exit,
                   codecVars, decVars>>

\* for mt_res_name in mt_res_names: fetch the resource, decode it, append.
LoopStep ==
    /\ ppc = "loop"
    /\ li < Len(collected)
    /\ \E o \in FetchOutcomes :
        IF o = "ok"
        THEN /\ result' = [result EXCEPT !.vals = Append(@, collected[li + 1])]
             /\ li' = li + 1
             /\ UNCHANGED ppc
        ELSE /\ result' = ErrWith(o)
             /\ ppc' = "returned"
             /\ UNCHANGED li
    /\ UNCHANGED <<driver, viaMain, loadOk, enumOk, items, ei, collected, stdout, exit,
                   codecVars, decVars>>

LoopDone ==
    /\ ppc = "loop"
    /\ li = Len(collected)
    /\ result' = Ok(result.vals)
    /\ ppc' = "returned"
    /\ UNCHANGED <<driver, viaMain, loadOk, enumOk, items, ei, collected, li, stdout, exit,
                   codecVars, decVars>>

\* main: print the types and leave, or print "ERROR: {e}" and exit(1).
MainReport ==
    /\ ppc = "returned"
    /\ viaMain
    /\ IF result.kind = "Ok"
       THEN /\ stdout' = stdout \o [i \in 1..Len(result.vals) |->
                                        Line("OUT", ToString(result.vals[i].id))]
            /\ exit' = "0"
       ELSE /\ stdout' = Append(stdout, Line("ERROR", result.err_msg))
            /\ exit' = "1"
    /\ ppc' = "exited"
    /\ UNCHANGED <<driver, viaMain, loadOk, enumOk, items, ei, collected, li, result,
                   codecVars, decVars>>

NextDriver ==
    \/ LoadLibrary
    \/ CallbackNames2
    \/ CallbackTypes
    \/ CallbackNames
    \/ EnumReturn
    \/ LoopStep
    \/ LoopDone
    \/ MainReport

SpecDriver == InitDriver /\ [][NextDriver]_vars

\* ------------------------------------------------------------------------
\* Properties of the drivers and of main
\* ------------------------------------------------------------------------
\* An enumerated identifier that does not decode: a string that starts with
\* '#' and is not an ordinal string.
Undecodable(it) ==
    it.wire >= 65536 /\ Len(it.str) >= 1 /\ it.str[1] = 35 /\ ~IsOrdinalString(it.str)

\* A string name with a number standing in for it.
Placeholder(it, v) ==
    it.wire >= 65536 /\ Len(it.str) >= 1 /\ it.str[1] # 35 /\ v.kind = "PushedU16"

Returned == ppc \in {"returned", "exited"}

InScope == driver \in {"get_message_table_entries", "get_resource_types"}

\* C9: when the load, the enumeration call or the handling of one enumerated
\* identifier fails, get_message_table_entries and get_resource_types return
\* an error that names the module; they never return success with only some
\* of the identifiers.
C9_FailFast ==
    /\ (InScope /\ ppc = "returned" /\ result.kind = "Ok") =>
        /\ loadOk
        /\ enumOk
        /\ Len(result.vals) = Len(items)
        /\ \A i \in 1..Len(items) : ~Undecodable(items[i])
    /\ (ppc = "returned" /\ result.kind = "Err") => result.mod_name = "ping.exe"

\* C9, the placeholder: no string identifier is returned as a number that
\* stands in for it.
C9_NoPlaceholder ==
    (InScope /\ ppc = "returned" /\ result.kind = "Ok" /\ Len(result.vals) = Len(items)) =>
        \A i \in 1..Len(items) : ~Placeholder(items[i], result.vals[i])

\* C9, the identifier that does not decode: handling it never ends the
\* enumeration without an error value.
C9_NoPanic == exit # "panic"

\* C9, the identifier that does not decode, in get_message_table_entries: it
\* is not skipped.
C9_NoSkip ==
    (driver = "get_message_table_entries" /\ ppc = "returned" /\ result.kind = "Ok") =>
        Len(result.vals) = Len(items)

\* C9, the part about the load and the enumeration call: their failure is
\* returned as an error naming the module, and a fetch failure ends the loop.
C9_CallFailures ==
    Returned /\ exit # "panic" =>
        /\ (~loadOk \/ ~enumOk) => (result.kind = "Err" /\ result.mod_name = "ping.exe")
        /\ result.kind = "Err" => result.mod_name = "ping.exe"
        /\ result.kind = "Ok" => (loadOk /\ enumOk /\ ei = Len(items))

ErrorLines == {i \in 1..Len(stdout) : stdout[i].tag = "ERROR"}

ErrorOccurred ==
    \/ ~loadOk
    \/ ~enumOk
    \/ \E i \in 1..ei : Undecodable(items[i])

\* C10: a run of the program ends with exit code 0, no error and no "ERROR:"
\* line, or with exit code 1 after an error and exactly one "ERROR:" line,
\* printed last; it ends in no other way.
C10_ProcessOutcome ==
    (viaMain /\ ppc = "exited") =>
        \/ exit = "0" /\ ErrorLines = {} /\ ~ErrorOccurred
        \/ exit = "1" /\ ErrorOccurred /\ ErrorLines = {Len(stdout)}

\* C10 for the runs in which no callback panics.
C10_WithoutPanic ==
    (viaMain /\ ppc = "exited" /\ exit # "panic") =>
        \/ exit = "0" /\ ErrorLines = {} /\ ~ErrorOccurred
        \/ exit = "1" /\ ErrorOccurred /\ ErrorLines = {Len(stdout)}

=============================================================================
